---------------------------- MODULE Spec2Model ----------------------------
(***************************************************************************)
(* Model of GamessToExcelReaderV2.py: the CSV-only script (lines 1-106)    *)
(* and the spreadsheet script (lines 109-265).  A text is a sequence of    *)
(* tokens: one token per character, and one token for each fixed literal   *)
(* the patterns look for.  The regular expressions are run by a small      *)
(* backtracking matcher with Python's priorities (greedy, lazy, leftmost). *)
(***************************************************************************)
EXTENDS Naturals, Sequences, FiniteSets

VARIABLES files, xlsPos, csvPos, results, csvResults, tier,
          fileName, text, meta, fb, rt, called

vars == <<files, xlsPos, csvPos, results, csvResults, tier,
          fileName, text, meta, fb, rt, called>>

(***************************************************************************)
(* Tokens                                                                  *)
(***************************************************************************)
MARKER == "EXECUTION OF GAMESS TERMINATED NORMALLY"
KW_DIST == "INTERNUCLEAR DISTANCES (ANGS.)"
KW_HEAT == "HEAT OF FORMATION IS"
KW_ENERGY == "TOTAL ENERGY"
KW_WALL == "TOTAL WALL CLOCK TIME="
KW_CARD == "INPUT CARD>!"
SUFFIX == ".log"
NL == "\n"

Space == {" ", NL}
Digit == {"0", "1", "2"}
Upper == {"H"}
Alphabet == {MARKER, KW_DIST, KW_HEAT, KW_ENERGY, KW_WALL, KW_CARD, SUFFIX}
            \cup Space \cup Digit \cup Upper
            \cup {"a", "b", "_", "|", "/", ".", "-", "=", "*"}
AnyChar == Alphabet
NotNewline == Alphabet \ {NL}

None == <<"None">>
NA == <<"NA">>
Unknown == <<"Unknown">>
NoMeta == <<None, None, None, None>>

(***************************************************************************)
(* Regular expressions: a sequence of items, matched with backtracking.    *)
(***************************************************************************)
One(S) == [k |-> "one", s |-> S, g |-> 0]
Star(S) == [k |-> "star", s |-> S, g |-> 0]
Lazy(S) == [k |-> "lazy", s |-> S, g |-> 0]
Opt(S) == [k |-> "opt", s |-> S, g |-> 0]
Open(n) == [k |-> "open", s |-> {}, g |-> n]
Close(n) == [k |-> "close", s |-> {}, g |-> n]
EndOfLine == [k |-> "eol", s |-> {}, g |-> 0]
Plus(S) == <<One(S), Star(S)>>

NoCaps == <<<<0, 0>>, <<0, 0>>>>
NoMatch == [ok |-> FALSE, start |-> 0, end |-> 0, caps |-> NoCaps]

RECURSIVE MatchHere(_, _, _, _, _, _)
MatchHere(re, t, k, start, pos, caps) ==
  IF k > Len(re)
  THEN [ok |-> TRUE, start |-> start, end |-> pos, caps |-> caps]
  ELSE LET it == re[k]
           here == pos <= Len(t) /\ t[pos] \in it.s
           skip == MatchHere(re, t, k + 1, start, pos, caps)
       IN  CASE it.k = "one" ->
                  IF here THEN MatchHere(re, t, k + 1, start, pos + 1, caps)
                  ELSE NoMatch
             [] it.k = "opt" ->
                  IF here
                  THEN LET r == MatchHere(re, t, k + 1, start, pos + 1, caps)
                       IN  IF r.ok THEN r ELSE skip
                  ELSE skip
             [] it.k = "star" ->
                  IF here
                  THEN LET r == MatchHere(re, t, k, start, pos + 1, caps)
                       IN  IF r.ok THEN r ELSE skip
                  ELSE skip
             [] it.k = "lazy" ->
                  IF skip.ok THEN skip
                  ELSE IF here THEN MatchHere(re, t, k, start, pos + 1, caps)
                  ELSE NoMatch
             [] it.k = "open" ->
                  MatchHere(re, t, k + 1, start, pos,
                            [caps EXCEPT ![it.g] = <<pos, pos>>])
             [] it.k = "close" ->
                  MatchHere(re, t, k + 1, start, pos,
                            [caps EXCEPT ![it.g] = <<caps[it.g][1], pos>>])
             [] it.k = "eol" ->
                  IF pos = Len(t) + 1 \/ t[pos] = NL THEN skip ELSE NoMatch

\* re.search from position s on: the leftmost start at which the pattern matches
RECURSIVE SearchFrom(_, _, _)
SearchFrom(re, t, s) ==
  IF s > Len(t) + 1 THEN NoMatch
  ELSE LET r == MatchHere(re, t, 1, s, s, NoCaps)
       IN  IF r.ok THEN r ELSE SearchFrom(re, t, s + 1)

Search(re, t) == SearchFrom(re, t, 1)

\* match.group(n)
Group(t, m, n) == SubSeq(t, m.caps[n][1], m.caps[n][2] - 1)

\* re.findall with one group: the group of each successive non-overlapping match
RECURSIVE FindAllFrom(_, _, _)
FindAllFrom(re, t, s) ==
  LET r == SearchFrom(re, t, s)
  IN  IF ~r.ok THEN <<>>
      ELSE <<Group(t, r, 1)>>
           \o FindAllFrom(re, t, IF r.end > r.start THEN r.end ELSE r.end + 1)

FindAll(re, t) == FindAllFrom(re, t, 1)

(***************************************************************************)
(* String helpers                                                          *)
(***************************************************************************)
\* x in s
Contains(s, x) == \E i \in 1..Len(s) : s[i] = x

RECURSIVE LStrip(_)
LStrip(s) == IF s # <<>> /\ Head(s) \in Space THEN LStrip(Tail(s)) ELSE s

RECURSIVE RStrip(_)
RStrip(s) ==
  IF s # <<>> /\ s[Len(s)] \in Space THEN RStrip(SubSeq(s, 1, Len(s) - 1)) ELSE s

\* str.strip()
Strip(s) == RStrip(LStrip(s))

\* str.split(sep): every segment, empty ones kept
RECURSIVE Split(_, _)
Split(s, sep) ==
  IF ~Contains(s, sep) THEN <<s>>
  ELSE LET i == CHOOSE j \in 1..Len(s) :
                  s[j] = sep /\ \A h \in 1..(j - 1) : s[h] # sep
       IN  <<SubSeq(s, 1, i - 1)>> \o Split(SubSeq(s, i + 1, Len(s)), sep)

\* str.split(sep, 1): cut at the first sep only
SplitOnce(s, sep) ==
  LET i == CHOOSE j \in 1..Len(s) : s[j] = sep /\ \A h \in 1..(j - 1) : s[h] # sep
  IN  <<SubSeq(s, 1, i - 1), SubSeq(s, i + 1, Len(s))>>

RECURSIVE DropLeadingZeros(_)
DropLeadingZeros(s) ==
  IF s # <<>> /\ Head(s) = "0" THEN DropLeadingZeros(Tail(s)) ELSE s

RECURSIVE DropTrailingZeros(_)
DropTrailingZeros(s) ==
  IF s # <<>> /\ s[Len(s)] = "0"
  THEN DropTrailingZeros(SubSeq(s, 1, Len(s) - 1)) ELSE s

\* float(s) for s of the form -?digits.digits: the number, not its spelling
\* (the texts are short enough for a double to hold every digit)
float(s) ==
  LET neg == s[1] = "-"
      body == IF neg THEN Tail(s) ELSE s
      parts == SplitOnce(body, ".")
  IN  <<"float", IF neg THEN "-" ELSE "+",
        DropLeadingZeros(parts[1]), DropTrailingZeros(parts[2])>>

(***************************************************************************)
(* The patterns of the extractors                                          *)
(***************************************************************************)
\* INTERNUCLEAR DISTANCES \(ANGS\.\).*?\n\s*\d+\s+[A-Z]+\s+([0-9]+\.\d+)\s+\*  (DOTALL)
BondRe ==
  <<One({KW_DIST}), Lazy(AnyChar), One({NL}), Star(Space)>>
  \o Plus(Digit) \o Plus(Space) \o Plus(Upper) \o Plus(Space)
  \o <<Open(1)>> \o Plus(Digit) \o <<One({"."})>> \o Plus(Digit) \o <<Close(1)>>
  \o Plus(Space) \o <<One({"*"})>>

\* HEAT OF FORMATION IS\s+(-?\d+\.\d+)
HeatRe ==
  <<One({KW_HEAT})>> \o Plus(Space)
  \o <<Open(1), Opt({"-"})>> \o Plus(Digit) \o <<One({"."})>> \o Plus(Digit)
  \o <<Close(1)>>

\* TOTAL ENERGY\s+=\s+(-?\d+\.\d+)
EnergyRe ==
  <<One({KW_ENERGY})>> \o Plus(Space) \o <<One({"="})>> \o Plus(Space)
  \o <<Open(1), Opt({"-"})>> \o Plus(Digit) \o <<One({"."})>> \o Plus(Digit)
  \o <<Close(1)>>

\* TOTAL WALL CLOCK TIME=\s+([0-9]+\.\d+)
TimeRe ==
  <<One({KW_WALL})>> \o Plus(Space)
  \o <<Open(1)>> \o Plus(Digit) \o <<One({"."})>> \o Plus(Digit) \o <<Close(1)>>

\* INPUT CARD>!\s*(.*?)\s*\|\s*.*?\|\s*(.*?)\s*$  (MULTILINE)
CardRe ==
  <<One({KW_CARD}), Star(Space), Open(1), Lazy(NotNewline), Close(1),
    Star(Space), One({"|"}), Star(Space), Lazy(NotNewline), One({"|"}),
    Star(Space), Open(2), Lazy(NotNewline), Close(2), Star(Space), EndOfLine>>

(***************************************************************************)
(* The functions of the scripts                                           *)
(***************************************************************************)
extract_bond_length(t) ==
  LET match == Search(BondRe, t)
  IN  IF match.ok THEN float(Group(t, match, 1)) ELSE None

extract_heat_of_formation(t) ==
  LET match == Search(HeatRe, t)
  IN  IF match.ok THEN float(Group(t, match, 1)) ELSE None

extract_total_energy(t) ==
  LET match == Search(EnergyRe, t)
  IN  IF match.ok THEN float(Group(t, match, 1)) ELSE None

\* file.stem: the name without its last suffix (a name that is only a
\* suffix, such as ".log", has none)
Stem(name) ==
  IF Len(name) > 1 /\ name[Len(name)] = SUFFIX
  THEN SubSeq(name, 1, Len(name) - 1) ELSE name

\* a variant that keeps the first four segments of a longer name
parse_filename_Truncate(st) ==
  LET parts == Split(st, "_")
  IN  IF Len(parts) >= 4 THEN SubSeq(parts, 1, 4) ELSE NoMeta

parse_filename(st) ==
  LET parts == Split(st, "_")
  IN  IF Len(parts) = 4 THEN parts ELSE NoMeta

\* a variant that returns the first occurrence
run_time_First(t) ==
  LET matches == FindAll(TimeRe, t)
  IN  IF matches # <<>> THEN matches[1] ELSE None

run_time(t) ==
  LET matches == FindAll(TimeRe, t)
  IN  IF matches # <<>> THEN matches[Len(matches)] ELSE None

fallback_parse_input_section(t) ==
  LET match == Search(CardRe, t)
  IN  IF ~match.ok THEN NoMeta
      ELSE LET molecule == Strip(Group(t, match, 1))
               method_basis == Strip(Group(t, match, 2))
               mb == IF Contains(method_basis, "/")
                     THEN SplitOnce(method_basis, "/")
                     ELSE <<method_basis, Unknown>>
           IN  <<molecule, Unknown, Strip(mb[2]), Strip(mb[1])>>

(***************************************************************************)
(* The loop bodies.  A file is its name, its text, and whether opening it  *)
(* succeeds (glob('*.log') also yields directories and unreadable files).  *)
(***************************************************************************)
README == <<"readme.txt">>

\* a variant that lets an absent value through
OrNA_Leak(v) == v

\* x if x is not None else 'NA'
OrNA(v) == IF v # None THEN v ELSE NA

\* None in (molecule, ff, basis, method)
HasNone(m) == \E i \in 1..4 : m[i] = None

\* a variant that asks for all three values
AnyNumeric_All(bond, heat, energy) == bond # None /\ heat # None /\ energy # None

\* any(v is not None for v in [bond, heat, energy])
AnyNumeric(bond, heat, energy) == bond # None \/ heat # None \/ energy # None

\* a variant with the test inverted
TerminatedNormally_Inverted(contents) == ~Contains(contents, MARKER)

\* "EXECUTION OF GAMESS TERMINATED NORMALLY" in contents
TerminatedNormally(contents) == Contains(contents, MARKER)

\* metadata resolution, with the tier that produced the tuple
ResolveMetadata(name, t) ==
  LET m == parse_filename(Stem(name))
  IN  IF HasNone(m)
      THEN [meta |-> fallback_parse_input_section(t), tier |-> "fallback"]
      ELSE [meta |-> m, tier |-> "filename"]

XlsxRow(m, bond, heat, energy, time, completion) ==
  [molecule |-> m[1], force_field |-> m[2], basis |-> m[3], comp_method |-> m[4],
   bond_length |-> OrNA(bond), heat_of_formation |-> OrNA(heat),
   total_energy |-> OrNA(energy), run_time |-> OrNA(time),
   Completion |-> completion]

\* a variant that writes the values as extracted
CsvRow_Raw(m, bond, heat, energy) ==
  [molecule |-> m[1], force_field |-> m[2], basis |-> m[3], comp_method |-> m[4],
   bond_length |-> bond, heat_of_formation |-> heat, total_energy |-> energy]

CsvRow(m, bond, heat, energy) ==
  [molecule |-> m[1], force_field |-> m[2], basis |-> m[3], comp_method |-> m[4],
   bond_length |-> OrNA(bond), heat_of_formation |-> OrNA(heat),
   total_energy |-> OrNA(energy)]

\* a variant in which the failing file leaves a record behind
OnError_Partial(res, f) ==
  Append(res, XlsxRow(NoMeta, None, None, None, None, "Incomplete"))

\* except Exception: the message is printed, the table is left alone
OnError(res, f) == res

\* one iteration of the spreadsheet script's loop
XlsxBody(res, f) ==
  IF f.name = README THEN res
  ELSE IF ~f.readable THEN OnError(res, f)
  ELSE LET contents == f.text
           m == ResolveMetadata(f.name, contents).meta
           bond == extract_bond_length(contents)
           heat == extract_heat_of_formation(contents)
           energy == extract_total_energy(contents)
           time == run_time(contents)
       IN  IF ~TerminatedNormally(contents)
           THEN Append(res, XlsxRow(m, bond, heat, energy, time, "Incomplete"))
           ELSE IF AnyNumeric(bond, heat, energy)
           THEN Append(res, XlsxRow(m, bond, heat, energy, time, "Completed"))
           ELSE res

\* the tier the spreadsheet script's iteration used ("none": it never got there)
XlsxTier(f) ==
  IF f.name = README \/ ~f.readable THEN "none"
  ELSE ResolveMetadata(f.name, f.text).tier

\* one iteration of the CSV script's loop
CsvBody(res, f) ==
  IF f.name = README THEN res
  ELSE IF ~f.readable THEN res
  ELSE LET contents == f.text
       IN  IF ~TerminatedNormally(contents) THEN res
           ELSE LET bond == extract_bond_length(contents)
                    heat == extract_heat_of_formation(contents)
                    energy == extract_total_energy(contents)
                    m == ResolveMetadata(f.name, contents).meta
                IN  IF AnyNumeric(bond, heat, energy)
                    THEN Append(res, CsvRow(m, bond, heat, energy))
                    ELSE res

\* the spreadsheet script's whole loop over a listing
RECURSIVE RunXlsx(_)
RunXlsx(fs) ==
  IF fs = <<>> THEN <<>>
  ELSE XlsxBody(RunXlsx(SubSeq(fs, 1, Len(fs) - 1)), fs[Len(fs)])

(***************************************************************************)
(* Inputs                                                                  *)
(***************************************************************************)
MaxFiles == 2
MaxSegs == 5
MaxFields == 4
MaxChunks == 3

RECURSIVE Flatten(_)
Flatten(ss) == IF ss = <<>> THEN <<>> ELSE Head(ss) \o Flatten(Tail(ss))

RECURSIVE Join(_, _)
Join(ss, sep) ==
  IF Len(ss) = 0 THEN <<>>
  ELSE IF Len(ss) = 1 THEN ss[1]
  ELSE ss[1] \o <<sep>> \o Join(Tail(ss), sep)

SeqsUpTo(S, n) == UNION {[1..k -> S] : k \in 0..n}
SeqsFromTo(S, lo, hi) == UNION {[1..k -> S] : k \in lo..hi}

MarkerLine == <<MARKER, NL>>
EnergyLine == <<KW_ENERGY, " ", "=", " ", "-", "1", ".", "2", NL>>
HeatLine == <<KW_HEAT, " ", "0", "1", ".", "1", "0", NL>>
BondSection == <<KW_DIST, NL, " ", "1", " ", "H", " ", "1", ".", "0", " ", "*", NL>>
TimeLine1 == <<KW_WALL, " ", "1", ".", "2", NL>>
TimeLine2 == <<KW_WALL, " ", "2", ".", "1", NL>>
CardLine == <<KW_CARD, " ", "b", " ", "|", "a", "|", " ", "a", "/", "b", NL>>

FullLog ==
  CardLine \o BondSection \o HeatLine \o EnergyLine \o TimeLine1 \o TimeLine2
  \o MarkerLine

LogTexts ==
  { <<"a", NL>>,
    EnergyLine,
    MarkerLine,
    TimeLine1 \o MarkerLine,
    FullLog,
    HeatLine \o MarkerLine,
    CardLine \o BondSection \o TimeLine1 }

\* the texts given to the files whose name does not follow the convention
FallbackTexts == {EnergyLine, FullLog, CardLine \o BondSection \o TimeLine1}

ConventionName == <<"a", "_", "b", "_", "a", "_", "b", SUFFIX>>
OtherNames ==
  { <<"a", "b", SUFFIX>>,
    <<"a", "_", "b", "_", "a", "_", "b", "_", "a", SUFFIX>> }

FilePool ==
  [name : {ConventionName}, text : LogTexts, readable : {TRUE}]
  \cup [name : OtherNames, text : FallbackTexts, readable : {TRUE}]
  \cup {[name |-> <<"a", "b", SUFFIX>>, text |-> <<>>, readable |-> FALSE]}

(***************************************************************************)
(* The two scripts run over the same listing                               *)
(***************************************************************************)
Init ==
  /\ files \in SeqsUpTo(FilePool, MaxFiles)
  /\ xlsPos = 0
  /\ csvPos = 0
  /\ results = <<>>
  /\ csvResults = <<>>
  /\ tier = "none"
  /\ fileName = <<>>
  /\ text = <<>>
  /\ meta = NoMeta
  /\ fb = NoMeta
  /\ rt = None
  /\ called = {}

XlsxStep ==
  /\ xlsPos < Len(files)
  /\ results' = XlsxBody(results, files[xlsPos + 1])
  /\ tier' = XlsxTier(files[xlsPos + 1])
  /\ xlsPos' = xlsPos + 1
  /\ UNCHANGED <<files, csvPos, csvResults, fileName, text, meta, fb, rt, called>>

CsvStep ==
  /\ csvPos < Len(files)
  /\ csvResults' = CsvBody(csvResults, files[csvPos + 1])
  /\ csvPos' = csvPos + 1
  /\ UNCHANGED <<files, xlsPos, results, tier, fileName, text, meta, fb, rt, called>>

Next == XlsxStep \/ CsvStep

Spec == Init /\ [][Next]_vars

(***************************************************************************)
(* Metadata resolution and the fallback parser on their own                *)
(***************************************************************************)
SegPool == {<<>>, <<"a">>, <<" ", "a">>, <<"b">>}
MetaNames == {Join(ss, "_") \o <<SUFFIX>> : ss \in SeqsFromTo(SegPool, 1, MaxSegs)}

FieldPool ==
  {<<>>, <<"a">>, <<" ", "b", " ">>, <<"a", "/", "b">>, <<"a", "/">>, <<NL, "b">>}
CardTexts ==
  {<<KW_CARD>> \o Join(fs, "|") : fs \in SeqsFromTo(FieldPool, 1, MaxFields)}

MetaInputs ==
  (MetaNames \X {CardLine}) \cup ({<<"a", "b", SUFFIX>>} \X CardTexts)

InitMeta ==
  /\ files = <<>>
  /\ xlsPos = 0
  /\ csvPos = 0
  /\ results = <<>>
  /\ csvResults = <<>>
  /\ tier = "none"
  /\ \E inp \in MetaInputs : fileName = inp[1] /\ text = inp[2]
  /\ meta = NoMeta
  /\ fb = NoMeta
  /\ rt = None
  /\ called = {}

Resolve ==
  /\ "resolve" \notin called
  /\ meta' = ResolveMetadata(fileName, text).meta
  /\ called' = called \cup {"resolve"}
  /\ UNCHANGED <<files, xlsPos, csvPos, results, csvResults, tier,
                 fileName, text, fb, rt>>

CallFallback ==
  /\ "fallback" \notin called
  /\ fb' = fallback_parse_input_section(text)
  /\ called' = called \cup {"fallback"}
  /\ UNCHANGED <<files, xlsPos, csvPos, results, csvResults, tier,
                 fileName, text, meta, rt>>

NextMeta == Resolve \/ CallFallback

SpecMeta == InitMeta /\ [][NextMeta]_vars

(***************************************************************************)
(* run_time on its own                                                     *)
(***************************************************************************)
ChunkPool ==
  { <<KW_WALL, " ", "1", ".", "2">>,
    <<KW_WALL, " ", "2", ".", "1", "0">>,
    <<KW_WALL, NL, " ", "0", ".", "1">>,
    <<KW_WALL, "1", ".", "2">>,
    <<KW_WALL, " ", "1", ".">>,
    <<NL>>,
    <<"a">> }
TimeTexts == {Flatten(cs) : cs \in SeqsUpTo(ChunkPool, MaxChunks)}

InitTime ==
  /\ files = <<>>
  /\ xlsPos = 0
  /\ csvPos = 0
  /\ results = <<>>
  /\ csvResults = <<>>
  /\ tier = "none"
  /\ fileName = <<>>
  /\ text \in TimeTexts
  /\ meta = NoMeta
  /\ fb = NoMeta
  /\ rt = None
  /\ called = {}

CallRunTime ==
  /\ "time" \notin called
  /\ rt' = run_time(text)
  /\ called' = called \cup {"time"}
  /\ UNCHANGED <<files, xlsPos, csvPos, results, csvResults, tier,
                 fileName, text, meta, fb>>

NextTime == CallRunTime

SpecTime == InitTime /\ [][NextTime]_vars

(***************************************************************************)
(* Properties of the loops                                                 *)
(***************************************************************************)
Last(s) == s[Len(s)]
Expected(v) == IF v = None THEN NA ELSE v
IsReadable(f) == f.readable
IsCompleted(r) == r.Completion = "Completed"
IsIncomplete(r) == r.Completion = "Incomplete"
ReadableWithoutMarker(f) == f.readable /\ ~Contains(f.text, MARKER)
MetaOf(r) == <<r.molecule, r.force_field, r.basis, r.comp_method>>
Shared(r) ==
  [molecule |-> r.molecule, force_field |-> r.force_field, basis |-> r.basis,
   comp_method |-> r.comp_method, bond_length |-> r.bond_length,
   heat_of_formation |-> r.heat_of_formation, total_energy |-> r.total_energy]
SharedAll(rs) == [i \in 1..Len(rs) |-> Shared(rs[i])]
NumericPresent(t) ==
  \/ extract_bond_length(t) # None
  \/ extract_heat_of_formation(t) # None
  \/ extract_total_energy(t) # None

\* the spreadsheet script has just processed the readable file f
XlsxProcessed(f) == xlsPos' = xlsPos + 1 /\ f = files[xlsPos + 1] /\ f.readable

OneRowAppended == Len(results') = Len(results) + 1
                  /\ SubSeq(results', 1, Len(results)) = results

CellsAsExtracted(row, t) ==
  /\ row.bond_length = Expected(extract_bond_length(t))
  /\ row.heat_of_formation = Expected(extract_heat_of_formation(t))
  /\ row.total_energy = Expected(extract_total_energy(t))
  /\ row.run_time = Expected(run_time(t))

\* C1: a log without the termination marker gets exactly one record, labelled
\* "Incomplete", whose result cells hold the extracted values and "NA" for
\* the absent ones, whatever was extracted
C1_IncompleteEmitted ==
  [][\A f \in FilePool :
       XlsxProcessed(f) /\ ~Contains(f.text, MARKER)
       => /\ OneRowAppended
          /\ Last(results').Completion = "Incomplete"
          /\ CellsAsExtracted(Last(results'), f.text)]_vars

\* Example 5 of the spec: no marker, total energy only
C1_Witness ==
  /\ xlsPos > 0
  /\ files[xlsPos].readable
  /\ ~Contains(files[xlsPos].text, MARKER)
  /\ extract_total_energy(files[xlsPos].text) # None
  /\ extract_bond_length(files[xlsPos].text) = None
  /\ results # <<>>
  /\ Last(results).Completion = "Incomplete"
  /\ Last(results).total_energy = extract_total_energy(files[xlsPos].text)
  /\ Last(results).bond_length = NA
  /\ Last(results).run_time = NA

\* C2: a log with the marker gets one "Completed" record when bond length,
\* heat of formation or total energy is present, and none otherwise (run time
\* does not count); every row is labelled "Completed" or "Incomplete"
C2_Classification ==
  [][/\ \A f \in FilePool :
          XlsxProcessed(f) /\ Contains(f.text, MARKER)
          => IF NumericPresent(f.text)
             THEN OneRowAppended /\ Last(results').Completion = "Completed"
             ELSE results' = results
     /\ \A i \in 1..Len(results') :
          results'[i].Completion \in {"Completed", "Incomplete"}]_vars

\* a rejected log with a run time, then a completed one
C2_Witness ==
  /\ xlsPos = 2
  /\ files[1].readable /\ files[2].readable
  /\ Contains(files[1].text, MARKER) /\ Contains(files[2].text, MARKER)
  /\ ~NumericPresent(files[1].text) /\ run_time(files[1].text) # None
  /\ NumericPresent(files[2].text)
  /\ Len(results) = 1
  /\ results[1].Completion = "Completed"

\* C4: the filename tier is used exactly when the base name has four
\* segments, the fallback tier only otherwise, and the four metadata values
\* of a record all come from that one tier
C4_AtomicMetadata ==
  [][\A f \in FilePool :
       XlsxProcessed(f)
       => LET parts == Split(Stem(f.name), "_")
          IN  /\ tier' = IF Len(parts) = 4 THEN "filename" ELSE "fallback"
              /\ Len(parts) # 4 => parse_filename(Stem(f.name)) = NoMeta
              /\ results' # results
                 => MetaOf(Last(results')) =
                      IF Len(parts) = 4 THEN parts
                      ELSE fallback_parse_input_section(f.text)]_vars

\* a five-segment name resolved by the input card, after a four-segment one
C4_Witness ==
  /\ xlsPos = 2
  /\ Len(results) = 2
  /\ files[1].readable /\ files[2].readable
  /\ Len(Split(Stem(files[1].name), "_")) = 4
  /\ MetaOf(results[1]) = <<<<"a">>, <<"b">>, <<"a">>, <<"b">>>>
  /\ Len(Split(Stem(files[2].name), "_")) = 5
  /\ tier = "fallback"
  /\ MetaOf(results[2]) = <<<<"b">>, Unknown, <<"b">>, <<"a">>>>

\* C7: a file whose processing raises leaves the table as it was, and the
\* table is at every point the one a batch without the failing files gives
C7_ErrorIsolated ==
  results = RunXlsx(SelectSeq(SubSeq(files, 1, xlsPos), IsReadable))

\* a failing file first, then a file that yields a record
C7_Witness ==
  /\ Len(files) = 2
  /\ xlsPos = 2
  /\ ~files[1].readable
  /\ files[2].readable
  /\ Len(results) = 1

\* C8: every result cell of an appended record holds the extracted value, or
\* "NA" when there is none; no cell is null, in either branch
C8_NoNullCell ==
  [][\A f \in FilePool :
       XlsxProcessed(f) /\ results' # results
       => LET row == Last(results')
          IN  /\ CellsAsExtracted(row, f.text)
              /\ row.bond_length # None
              /\ row.heat_of_formation # None
              /\ row.total_energy # None
              /\ row.run_time # None]_vars

\* a completed record with absent cells
C8_Witness ==
  /\ results # <<>>
  /\ Last(results).Completion = "Completed"
  /\ Last(results).bond_length = NA
  /\ Last(results).run_time = NA
  /\ Last(results).heat_of_formation \notin {NA, None}

RECURSIVE Perms(_)
Perms(s) ==
  IF s = <<>> THEN {<<>>}
  ELSE UNION {{<<s[i]>> \o q :
                 q \in Perms(SubSeq(s, 1, i - 1) \o SubSeq(s, i + 1, Len(s)))} :
              i \in 1..Len(s)}

\* C9: the table does not depend on the order in which the files are
\* discovered: any other order of the same listing gives the same table
C9_OrderIndependent ==
  xlsPos = Len(files) => \A q \in Perms(files) : RunXlsx(q) = results

\* C10: the CSV script's table is the spreadsheet script's "Completed" rows
\* cut to the seven shared columns, and every readable log without the marker
\* gives an "Incomplete" spreadsheet row and no CSV row
C10_Variants ==
  csvPos = xlsPos
  => /\ csvResults = SharedAll(SelectSeq(results, IsCompleted))
     /\ Len(SelectSeq(results, IsIncomplete)) =
          Len(SelectSeq(SubSeq(files, 1, xlsPos), ReadableWithoutMarker))
     /\ Len(csvResults) + Len(SelectSeq(results, IsIncomplete)) = Len(results)

\* an incomplete log and a completed one, processed by both scripts
C10_Witness ==
  /\ csvPos = 2 /\ xlsPos = 2
  /\ Len(results) = 2
  /\ results[1].Completion = "Incomplete"
  /\ results[2].Completion = "Completed"
  /\ results[2].bond_length = NA
  /\ Len(csvResults) = 1
  /\ csvResults[1] = Shared(results[2])

(***************************************************************************)
(* Properties of the metadata parsers and of run_time                      *)
(***************************************************************************)
FirstIndex(s, x) == CHOOSE i \in 1..Len(s) : s[i] = x /\ \A h \in 1..(i - 1) : s[h] # x
LastIndex(s, x) == CHOOSE i \in 1..Len(s) : s[i] = x /\ \A h \in (i + 1)..Len(s) : s[h] # x
Count(s, x) == Cardinality({i \in 1..Len(s) : s[i] = x})
BeforeFirst(s, x) == SubSeq(s, 1, FirstIndex(s, x) - 1)
AfterLast(s, x) == SubSeq(s, LastIndex(s, x) + 1, Len(s))

\* the rest of the line of the first "INPUT CARD>!" of t
EchoLine(t) ==
  LET rest == SubSeq(t, FirstIndex(t, KW_CARD) + 1, Len(t))
  IN  IF Contains(rest, NL) THEN BeforeFirst(rest, NL) ELSE rest

TrimmedNonEmpty(s) == s # <<>> /\ Strip(s) = s

\* C3: each of the four metadata elements the resolver returns is a trimmed
\* non-empty string or the unresolved marker
C3_TrimmedOrUnresolved ==
  "resolve" \in called => \A i \in 1..4 : meta[i] = None \/ TrimmedNonEmpty(meta[i])

\* C5: on an input-echo line with two or more "|", the molecule is the text
\* before the first "|" and the method/basis segment is the text after the
\* last "|" of that same line
C5_FirstAndLastBar ==
  "fallback" \in called /\ Contains(text, KW_CARD) /\ Count(EchoLine(text), "|") >= 2
  => LET line == EchoLine(text)
         segment == Strip(AfterLast(line, "|"))
         mb == IF Contains(segment, "/") THEN SplitOnce(segment, "/")
               ELSE <<segment, Unknown>>
     IN  fb = <<Strip(BeforeFirst(line, "|")), Unknown, Strip(mb[2]), Strip(mb[1])>>

\* the positions of t at which the wall-clock pattern matches
TimeMatchesAt(t) == {i \in 1..Len(t) : MatchHere(TimeRe, t, 1, i, i, NoCaps).ok}
TimeValueAt(t, i) == Group(t, MatchHere(TimeRe, t, 1, i, i, NoCaps), 1)
Max(S) == CHOOSE x \in S : \A y \in S : y <= x
Min(S) == CHOOSE x \in S : \A y \in S : x <= y

\* C6: run_time returns the value of the last "TOTAL WALL CLOCK TIME= <decimal>"
\* of the text, and None when there is none
C6_LastOccurrence ==
  "time" \in called
  => rt = IF TimeMatchesAt(text) = {} THEN None
          ELSE TimeValueAt(text, Max(TimeMatchesAt(text)))

\* two occurrences with different values: the later one is returned
C6_Witness ==
  /\ "time" \in called
  /\ Cardinality(TimeMatchesAt(text)) >= 2
  /\ TimeValueAt(text, Min(TimeMatchesAt(text))) # TimeValueAt(text, Max(TimeMatchesAt(text)))
  /\ rt = TimeValueAt(text, Max(TimeMatchesAt(text)))

=============================================================================
